---- MODULE Spec2Model ----
(***************************************************************************)
(* The poll / diff / notify loop of sheets-diff (src/main.rs): main's      *)
(* startup and loop driver, tick, and the fetch under a timeout.           *)
(*                                                                         *)
(* Time is counted in half seconds, so that the truncation done by         *)
(* Duration::as_secs is visible.  Row indices are 1-based here; index i    *)
(* of the source is index i + 1 of the model.                              *)
(***************************************************************************)
EXTENDS Integers, Sequences, FiniteSets, TLC

VARIABLES
    pc,              \* position of main: which await / statement is next
    main_err,        \* what main returned with ("none" while it runs)
    current_data,    \* main's current_data (line 33, 46)
    previous_data,   \* tick's parameter previous_data (line 75)
    new_data,        \* tick's new_data (line 76)
    fetched,         \* the fetch of this cycle returned values (new_data exists)
    row,             \* position of the zip iterator of line 78
    result,          \* what tick returned: "Ok", "GoogleAPI", "Timeout", "Other"
    last_error_time, \* main's last_error_time as <<>> (None) or <<t.elapsed()>>
    dispatched,      \* row indices handed to send_webhook_message in this tick
    alerted,         \* line 51 was reached in this cycle
    seen_elapsed,    \* what line 49 read: <<>> (None) or <<elapsed>>
    checked,         \* line 49 was evaluated in this cycle
    fetch_dur,       \* how long the fetch of this cycle needed
    renotify_barred, \* rows delivered last cycle that this fetch shows unchanged
    same_upstream,   \* this fetch returned what the previous cycle's fetch returned
    alert_result,    \* how the send of line 51 ended: "none", "sent", "failed"
    resend_barred,   \* row whose send failed last cycle, unchanged in this fetch
    sent_content,    \* the contents handed to send_webhook_message in this tick
    cause,           \* what went wrong in this tick, "none" if nothing did
    last_alert_result \* how the latest send of line 51 ended, "none" before any

vars == <<pc, main_err, current_data, previous_data, new_data, fetched, row,
          result, last_error_time, dispatched, alerted, seen_elapsed, checked,
          fetch_dur, renotify_barred, same_upstream, alert_result,
          resend_barred, sent_content, cause, last_alert_result>>

----------------------------------------------------------------------------
(* Bounds and program constants *)

MaxRows == 2          \* longest snapshot drawn
ElapsedCap == 1325    \* elapsed half seconds saturate here (beyond the window)

SleepSecs == 5        \* line 43
TimeoutSecs == 5      \* line 124
ThrottleSecs == 600   \* line 49, 60 * 10

Secs(n) == 2 * n
Min(a, b) == IF a < b THEN a ELSE b
Range(s) == {s[k] : k \in 1..Len(s)}

----------------------------------------------------------------------------
(* Cells, rows, snapshots (serde_json::Value, Vec<Value>, SheetsContent) *)

Str(s) == [kind |-> "String", val |-> s]
Num(s) == [kind |-> "Number", val |-> s]

Rows == { <<>>, <<Num("5")>>, <<Str("a1"), Num("5")>>, <<Str("a1"), Num("6")>> }

RECURSIVE SeqsUpTo(_, _)
SeqsUpTo(S, n) ==
    IF n = 0 THEN {<<>>}
    ELSE LET shorter == SeqsUpTo(S, n - 1)
         IN  shorter \cup {Append(s, x) : s \in {t \in shorter : Len(t) = n - 1}, x \in S}

Snapshots == SeqsUpTo(Rows, MaxRows)

\* the snapshots of the throttle specification: one row, changed or malformed
ThrottleSnapshots == { << <<Str("a1"), Num("5")>> >>,
                       << <<Str("a1"), Num("6")>> >>,
                       << <<Str("b2"), Num("5")>> >>,
                       << <<Num("5")>> >> }

\* what the Sheets API answers: values, a response without values, or an error
Responses(S) == {[kind |-> "Values", values |-> s] : s \in S}
                \cup {[kind |-> "NoValues", values |-> <<>>],
                      [kind |-> "ApiError", values |-> <<>>]}

----------------------------------------------------------------------------
(* Results, clocks and the pure helpers of the source *)

Ok(s) == [ok |-> TRUE, err |-> "none", values |-> s]
Err(e) == [ok |-> FALSE, err |-> e, values |-> <<>>]

\* Duration::as_secs: whole seconds, truncated
AsSecs(e) == e \div 2

\* the clock moves on by d half seconds: a recorded instant gets older
Elapse(t, d) == IF t = <<>> THEN <<>> ELSE <<Min(t[1] + d, ElapsedCap)>>

\* faulty variant: a response without values reported as an API error
get_sheet_values_all_api(resp) ==
    IF resp.kind = "Values" THEN Ok(resp.values) ELSE Err("GoogleAPI")

\* get_sheet_values: `?` on the API call, then ok_or("No data found")
get_sheet_values(resp) ==
    IF resp.kind = "ApiError" THEN Err("GoogleAPI")
    ELSE IF resp.kind = "NoValues" THEN Err("Other")
    ELSE Ok(resp.values)

\* faulty variant: the fetch awaited without the timeout
get_sheet_values_untimed(resp, dur) == get_sheet_values(resp)

\* get_sheet_values_timeout: the fetch raced against 5 seconds
get_sheet_values_timeout(resp, dur) ==
    IF dur > Secs(TimeoutSecs) THEN Err("Timeout") ELSE get_sheet_values(resp)

\* faulty variant: rows compared by their first cell only
RowsDifferFirstCell(new_row, old_row) ==
    IF Len(new_row) = 0 \/ Len(old_row) = 0
    THEN Len(new_row) # Len(old_row)
    ELSE new_row[1] # old_row[1]

\* line 79: new_row != old_row, equality of Vec<Value>
RowsDiffer(new_row, old_row) == new_row # old_row

\* line 87: new_row.get(0) is there and as_str() is Some
FirstIsString(r) == Len(r) > 0 /\ r[1].kind = "String"

\* line 30: the identifier lookup load_ids returned, keys as the file has them
ids == [k \in {"A1"} |-> "99"]

\* str::to_uppercase on the first cells drawn here
to_uppercase(s) ==
    CASE s = "a1" -> "A1"
      [] s = "b2" -> "B2"
      [] OTHER -> s

\* line 83: Value::to_string, the JSON text: a string in quotes, a number bare
value_to_string(cell) ==
    IF cell.kind = "String" THEN "\"" \o cell.val \o "\"" ELSE cell.val

\* line 85: join(", ") over the rendered cells
RECURSIVE join(_)
join(cells) ==
    IF Len(cells) = 0 THEN ""
    ELSE IF Len(cells) = 1 THEN value_to_string(cells[1])
    ELSE value_to_string(cells[1]) \o ", " \o join(Tail(cells))

\* faulty variant: the first cell looked up as it is, not in upper case
prefix_as_written(new_row) ==
    IF new_row[1].val \in DOMAIN ids
    THEN "<@" \o ids[new_row[1].val] \o "> "
    ELSE ""

\* lines 87-88: ids.get(&first.to_uppercase()), "<@{id}> " or the empty string
prefix(new_row) ==
    IF to_uppercase(new_row[1].val) \in DOMAIN ids
    THEN "<@" \o ids[to_uppercase(new_row[1].val)] \o "> "
    ELSE ""

\* line 90: format!("{prefix}{content}")
content(new_row) == prefix(new_row) \o join(new_row)

\* faulty variant: every fetched row is visited, paired or not
ZipLenOfNew(new, old) == Len(new)

\* line 78: how many pairs the zip of the two snapshots yields
ZipLen(new, old) == Min(Len(new), Len(old))

\* faulty variant: the window compared with >= instead of >
ThrottlePassesAtTen(t) == t = <<>> \/ AsSecs(t[1]) >= ThrottleSecs

\* line 49: last_error_time.map_or(true, |t| t.elapsed().as_secs() > 60 * 10)
ThrottlePasses(t) == t = <<>> \/ AsSecs(t[1]) > ThrottleSecs

----------------------------------------------------------------------------
Init ==
    /\ pc = "init_fetch"
    /\ main_err = "none"
    /\ current_data = <<>>
    /\ previous_data = <<>>
    /\ new_data = <<>>
    /\ fetched = FALSE
    /\ row = 1
    /\ result = "None"
    /\ last_error_time = <<>>
    /\ dispatched = <<>>
    /\ alerted = FALSE
    /\ seen_elapsed = <<>>
    /\ checked = FALSE
    /\ fetch_dur = 0
    /\ renotify_barred = {}
    /\ same_upstream = FALSE
    /\ alert_result = "none"
    /\ resend_barred = {}
    /\ sent_content = <<>>
    /\ cause = "none"
    /\ last_alert_result = "none"

cycle_vars == <<previous_data, new_data, fetched, row, result, dispatched, alerted,
                seen_elapsed, checked, fetch_dur, renotify_barred, same_upstream,
                alert_result, resend_barred, sent_content, cause>>

(* Startup, lines 33-40 *)

\* line 33: the initial fetch, no timeout; an error leaves main through `?`
InitialFetch(resp) ==
    /\ pc = "init_fetch"
    /\ LET r == get_sheet_values(resp)
       IN  IF r.ok
           THEN /\ current_data' = r.values
                /\ pc' = "announce"
                /\ main_err' = main_err
           ELSE /\ pc' = "exit"
                /\ main_err' = "get_sheet_values"
                /\ current_data' = current_data
    /\ UNCHANGED <<last_error_time, cycle_vars, last_alert_result>>

\* lines 36-38: "Bot started": send_webhook_message(..).await?
Announce(sent_ok) ==
    /\ pc = "announce"
    /\ IF sent_ok
       THEN pc' = "sleep" /\ main_err' = main_err
       ELSE pc' = "exit" /\ main_err' = "send_webhook_message"
    /\ UNCHANGED <<current_data, last_error_time, cycle_vars,
                   last_alert_result>>

(* The loop, lines 42-57 *)

\* line 43, then the call of tick with &current_data (line 45)
Sleep(extra) ==
    /\ pc = "sleep"
    /\ pc' = "fetch"
    /\ previous_data' = current_data
    /\ last_error_time' = Elapse(last_error_time, Secs(SleepSecs) + extra)
    /\ UNCHANGED <<main_err, current_data, new_data, fetched, row, result,
                   dispatched, alerted, seen_elapsed, checked, fetch_dur,
                   renotify_barred, same_upstream, alert_result, resend_barred,
                   sent_content, cause, last_alert_result>>

\* the rows whose send returned Ok in the tick that ran last: a send that
\* failed ended that tick at the row the iterator stands on
Delivered == Range(dispatched) \ (IF result = "Other" THEN {row} ELSE {})

\* the row whose send failed in the tick that ran last
FailedSend ==
    IF result = "Other" /\ fetched /\ row \in Range(dispatched) THEN {row} ELSE {}

\* line 76: the fetch under the timeout; an error returns from tick through `?`
TickFetch(resp, dur) ==
    /\ pc = "fetch"
    /\ LET r == get_sheet_values_timeout(resp, dur)
       IN  /\ fetched' = r.ok
           /\ new_data' = r.values
           /\ result' = IF r.ok THEN "None" ELSE r.err
           /\ pc' = IF r.ok THEN "diff" ELSE "match"
           /\ renotify_barred' =
                 IF r.ok /\ fetched
                 THEN {k \in Delivered :
                          k <= Len(r.values) /\ r.values[k] = new_data[k]}
                 ELSE {}
           /\ same_upstream' = (r.ok /\ fetched /\ r.values = new_data)
           /\ resend_barred' =
                 IF r.ok /\ fetched
                 THEN {k \in FailedSend :
                          k <= Len(r.values) /\ r.values[k] = new_data[k]}
                 ELSE {}
    /\ cause' = IF dur > Secs(TimeoutSecs) THEN "timeout"
                ELSE IF resp.kind = "ApiError" THEN "api_error"
                ELSE IF resp.kind = "NoValues" THEN "no_values"
                ELSE "none"
    /\ sent_content' = <<>>
    /\ row' = 1
    /\ dispatched' = <<>>
    /\ alerted' = FALSE
    /\ checked' = FALSE
    /\ seen_elapsed' = <<>>
    /\ fetch_dur' = dur
    /\ alert_result' = "none"
    /\ last_error_time' = Elapse(last_error_time, Min(dur, Secs(TimeoutSecs)))
    /\ UNCHANGED <<main_err, current_data, previous_data, last_alert_result>>

InLoop == pc = "diff" /\ row <= ZipLen(new_data, previous_data)

\* line 78: the old_row of pair k; the zip yields no pair beyond the shorter
\* snapshot, a row that is not there compares unequal to every row
old_row(k) ==
    IF k <= Len(previous_data) THEN previous_data[k]
    ELSE <<[kind |-> "Missing", val |-> ""]>>

\* line 79 false: the rows are equal, next pair
RowUnchanged ==
    /\ InLoop
    /\ ~RowsDiffer(new_data[row], old_row(row))
    /\ row' = row + 1
    /\ UNCHANGED <<pc, main_err, current_data, previous_data, new_data, fetched,
                   result, last_error_time, dispatched, alerted, seen_elapsed,
                   checked, fetch_dur, renotify_barred, same_upstream,
                   alert_result, resend_barred, sent_content, cause,
                   last_alert_result>>

\* faulty variant: a malformed row is passed over and the loop goes on
RowMalformedSkips ==
    /\ InLoop
    /\ RowsDiffer(new_data[row], old_row(row))
    /\ ~FirstIsString(new_data[row])
    /\ row' = row + 1
    /\ UNCHANGED <<pc, main_err, current_data, previous_data, new_data, fetched,
                   result, last_error_time, dispatched, alerted, seen_elapsed,
                   checked, fetch_dur, renotify_barred, same_upstream,
                   alert_result, resend_barred, sent_content, cause,
                   last_alert_result>>

\* line 87: "No first row" / "First row not a string": tick returns Err(Other)
RowMalformed ==
    /\ InLoop
    /\ RowsDiffer(new_data[row], old_row(row))
    /\ ~FirstIsString(new_data[row])
    /\ result' = "Other"
    /\ cause' = "malformed_row"
    /\ pc' = "match"
    /\ UNCHANGED <<main_err, current_data, previous_data, new_data, fetched,
                   row, last_error_time, dispatched, alerted, seen_elapsed,
                   checked, fetch_dur, renotify_barred, same_upstream,
                   alert_result, resend_barred, sent_content,
                   last_alert_result>>

\* faulty variant: the iterator does not move on after a send
RowSendStays(sent_ok, took) ==
    /\ InLoop
    /\ RowsDiffer(new_data[row], old_row(row))
    /\ FirstIsString(new_data[row])
    /\ dispatched' = Append(dispatched, row)
    /\ sent_content' = Append(sent_content, content(new_data[row]))
    /\ cause' = IF sent_ok THEN cause ELSE "send_failed"
    /\ last_error_time' = Elapse(last_error_time, took)
    /\ IF sent_ok
       THEN UNCHANGED <<pc, result>>
       ELSE result' = "Other" /\ pc' = "match"
    /\ UNCHANGED <<main_err, current_data, previous_data, new_data, fetched, row,
                   alerted, seen_elapsed, checked, fetch_dur, renotify_barred,
                   same_upstream, alert_result, resend_barred,
                   last_alert_result>>

\* faulty variant: a send that failed is tried again within the tick
RowSendRetries(sent_ok, took) ==
    /\ InLoop
    /\ RowsDiffer(new_data[row], old_row(row))
    /\ FirstIsString(new_data[row])
    /\ dispatched' = Append(dispatched, row)
    /\ sent_content' = Append(sent_content, content(new_data[row]))
    /\ last_error_time' = Elapse(last_error_time, took)
    /\ row' = IF sent_ok THEN row + 1 ELSE row
    /\ UNCHANGED <<pc, main_err, current_data, previous_data, new_data, fetched,
                   result, alerted, seen_elapsed, checked, fetch_dur,
                   renotify_barred, same_upstream, alert_result, resend_barred,
                   cause, last_alert_result>>

\* line 92: send_webhook_message(..).await?; a failure returns Err(Other)
RowSend(sent_ok, took) ==
    /\ InLoop
    /\ RowsDiffer(new_data[row], old_row(row))
    /\ FirstIsString(new_data[row])
    /\ dispatched' = Append(dispatched, row)
    /\ sent_content' = Append(sent_content, content(new_data[row]))
    /\ cause' = IF sent_ok THEN cause ELSE "send_failed"
    /\ last_error_time' = Elapse(last_error_time, took)
    /\ IF sent_ok
       THEN row' = row + 1 /\ UNCHANGED <<pc, result>>
       ELSE result' = "Other" /\ pc' = "match" /\ row' = row
    /\ UNCHANGED <<main_err, current_data, previous_data, new_data, fetched,
                   alerted, seen_elapsed, checked, fetch_dur, renotify_barred,
                   same_upstream, alert_result, resend_barred,
                   last_alert_result>>

\* line 95: the zip is exhausted, Ok(new_data)
TickReturn ==
    /\ pc = "diff"
    /\ row > ZipLen(new_data, previous_data)
    /\ result' = "Ok"
    /\ pc' = "match"
    /\ UNCHANGED <<main_err, current_data, previous_data, new_data, fetched,
                   row, last_error_time, dispatched, alerted, seen_elapsed,
                   checked, fetch_dur, renotify_barred, same_upstream,
                   alert_result, resend_barred, sent_content, cause,
                   last_alert_result>>

\* faulty variant: after Ok the next tick is called at once, without the sleep
MatchOkNoSleep ==
    /\ pc = "match" /\ result = "Ok"
    /\ current_data' = new_data
    /\ previous_data' = new_data
    /\ pc' = "fetch"
    /\ UNCHANGED <<main_err, last_error_time, new_data, fetched, row, result,
                   dispatched, alerted, seen_elapsed, checked, fetch_dur,
                   renotify_barred, same_upstream, alert_result, resend_barred,
                   sent_content, cause, last_alert_result>>

\* line 46: Ok(new_data) => current_data = new_data
MatchOk ==
    /\ pc = "match" /\ result = "Ok"
    /\ current_data' = new_data
    /\ pc' = "sleep"
    /\ UNCHANGED <<main_err, last_error_time, cycle_vars, last_alert_result>>

\* faulty variant: a sliding window, every SourceError records the instant
MatchGoogleAPISliding ==
    /\ pc = "match" /\ result = "GoogleAPI"
    /\ checked' = TRUE
    /\ seen_elapsed' = last_error_time
    /\ last_error_time' = <<0>>
    /\ IF ThrottlePasses(last_error_time)
       THEN alerted' = TRUE /\ pc' = "alert"
       ELSE alerted' = alerted /\ pc' = "sleep"
    /\ UNCHANGED <<main_err, current_data, previous_data, new_data, fetched, row,
                   result, dispatched, fetch_dur, renotify_barred, same_upstream,
                   alert_result, resend_barred, sent_content, cause,
                   last_alert_result>>

\* lines 47-53: Err(GoogleAPI): log, and the throttled alert
MatchGoogleAPI ==
    /\ pc = "match" /\ result = "GoogleAPI"
    /\ checked' = TRUE
    /\ seen_elapsed' = last_error_time
    /\ IF ThrottlePasses(last_error_time)
       THEN /\ last_error_time' = <<0>>
            /\ alerted' = TRUE
            /\ pc' = "alert"
       ELSE /\ pc' = "sleep"
            /\ UNCHANGED <<last_error_time, alerted>>
    /\ UNCHANGED <<main_err, current_data, previous_data, new_data, fetched,
                   row, result, dispatched, fetch_dur, renotify_barred,
                   same_upstream, alert_result, resend_barred, sent_content,
                   cause, last_alert_result>>

\* faulty variant: the instant is recorded only when the alert was delivered
AlertSendForgets(sent_ok, took) ==
    /\ pc = "alert"
    /\ pc' = "sleep"
    /\ alert_result' = IF sent_ok THEN "sent" ELSE "failed"
    /\ last_alert_result' = IF sent_ok THEN "sent" ELSE "failed"
    /\ last_error_time' = IF sent_ok THEN Elapse(last_error_time, took) ELSE <<>>
    /\ UNCHANGED <<main_err, current_data, previous_data, new_data, fetched, row,
                   result, dispatched, alerted, seen_elapsed, checked, fetch_dur,
                   renotify_barred, same_upstream, resend_barred, sent_content,
                   cause>>

\* faulty variant: the alert sent with `?`, a failed send leaves main
AlertSendPropagates(sent_ok, took) ==
    /\ pc = "alert"
    /\ pc' = IF sent_ok THEN "sleep" ELSE "exit"
    /\ main_err' = IF sent_ok THEN main_err ELSE "send_webhook_message"
    /\ alert_result' = IF sent_ok THEN "sent" ELSE "failed"
    /\ last_alert_result' = IF sent_ok THEN "sent" ELSE "failed"
    /\ last_error_time' = Elapse(last_error_time, took)
    /\ UNCHANGED <<current_data, previous_data, new_data, fetched, row, result,
                   dispatched, alerted, seen_elapsed, checked, fetch_dur,
                   renotify_barred, same_upstream, resend_barred, sent_content,
                   cause>>

\* line 51: let _ = send_webhook_message(..).await: the outcome is dropped
AlertSend(sent_ok, took) ==
    /\ pc = "alert"
    /\ pc' = "sleep"
    /\ alert_result' = IF sent_ok THEN "sent" ELSE "failed"
    /\ last_alert_result' = IF sent_ok THEN "sent" ELSE "failed"
    /\ last_error_time' = Elapse(last_error_time, took)
    /\ UNCHANGED <<main_err, current_data, previous_data, new_data, fetched,
                   row, result, dispatched, alerted, seen_elapsed, checked,
                   fetch_dur, renotify_barred, same_upstream, resend_barred,
                   sent_content, cause>>

\* faulty variant: a timeout alerts as an API error does
MatchTimeoutAlerts ==
    /\ pc = "match" /\ result = "Timeout"
    /\ IF ThrottlePasses(last_error_time)
       THEN /\ last_error_time' = <<0>>
            /\ alerted' = TRUE
            /\ pc' = "alert"
       ELSE /\ pc' = "sleep"
            /\ UNCHANGED <<last_error_time, alerted>>
    /\ UNCHANGED <<main_err, current_data, previous_data, new_data, fetched,
                   row, result, dispatched, seen_elapsed, checked, fetch_dur,
                   renotify_barred, same_upstream, alert_result, resend_barred,
                   sent_content, cause, last_alert_result>>

\* line 54: Err(Timeout) => warn!
MatchTimeout ==
    /\ pc = "match" /\ result = "Timeout"
    /\ pc' = "sleep"
    /\ UNCHANGED <<main_err, current_data, last_error_time, cycle_vars,
                   last_alert_result>>

\* faulty variant: the fetched snapshot is stored although tick failed
MatchOtherStores ==
    /\ pc = "match" /\ result = "Other"
    /\ current_data' = IF fetched THEN new_data ELSE current_data
    /\ pc' = "sleep"
    /\ UNCHANGED <<main_err, last_error_time, cycle_vars, last_alert_result>>

\* line 55: Err(Other(e)) => error!
MatchOther ==
    /\ pc = "match" /\ result = "Other"
    /\ pc' = "sleep"
    /\ UNCHANGED <<main_err, current_data, last_error_time, cycle_vars,
                   last_alert_result>>

----------------------------------------------------------------------------
(* Specifications *)

\* Spec: every snapshot of up to MaxRows rows; sleeps of five minutes, so that
\* the throttle window is crossed within three cycles.  A fetch that answers in
\* time may answer anything; the answer of a fetch that is late is never read,
\* and a few answers stand for it.  The alert of line 51 is delivered here; its
\* failure is drawn in SpecThrottle.
SleepExtras == {Secs(295)}
FetchDurations == {0, Secs(TimeoutSecs) + 1}
InTimeDurations == {d \in FetchDurations : d <= Secs(TimeoutSecs)}
LateDurations == {d \in FetchDurations : d > Secs(TimeoutSecs)}
SendDurations == {0}
AlertOutcomes == {TRUE}

Next ==
    \/ \E resp \in Responses(Snapshots) : InitialFetch(resp)
    \/ \E sent_ok \in BOOLEAN : Announce(sent_ok)
    \/ \E extra \in SleepExtras : Sleep(extra)
    \/ \E resp \in Responses(Snapshots), dur \in InTimeDurations : TickFetch(resp, dur)
    \/ \E resp \in Responses(ThrottleSnapshots), dur \in LateDurations :
          TickFetch(resp, dur)
    \/ RowUnchanged
    \/ RowMalformed
    \/ \E sent_ok \in BOOLEAN, took \in SendDurations : RowSend(sent_ok, took)
    \/ TickReturn
    \/ MatchOk
    \/ MatchGoogleAPI
    \/ \E sent_ok \in AlertOutcomes, took \in SendDurations : AlertSend(sent_ok, took)
    \/ MatchTimeout
    \/ MatchOther

Spec == Init /\ [][Next]_vars

\* SpecThrottle: one-row snapshots; sleeps of a minute, ten and eleven minutes
\* and sends of half a second, so that the clock reaches both sides of the
\* throttle window and the second in between
ThrottleSleepExtras == {Secs(55), Secs(595), Secs(655)}
ThrottleSendDurations == {0, 1}

NextThrottle ==
    \/ \E resp \in Responses(ThrottleSnapshots) : InitialFetch(resp)
    \/ \E sent_ok \in BOOLEAN : Announce(sent_ok)
    \/ \E extra \in ThrottleSleepExtras : Sleep(extra)
    \/ \E resp \in Responses(ThrottleSnapshots), dur \in FetchDurations :
          TickFetch(resp, dur)
    \/ RowUnchanged
    \/ RowMalformed
    \/ \E sent_ok \in BOOLEAN, took \in ThrottleSendDurations : RowSend(sent_ok, took)
    \/ TickReturn
    \/ MatchOk
    \/ MatchGoogleAPI
    \/ \E sent_ok \in BOOLEAN, took \in ThrottleSendDurations : AlertSend(sent_ok, took)
    \/ MatchTimeout
    \/ MatchOther

SpecThrottle == Init /\ [][NextThrottle]_vars

\* the fair run: every await returns and the one task of main is scheduled
FairSpec == SpecThrottle /\ WF_vars(NextThrottle)

----------------------------------------------------------------------------
(* The claims *)

\* the rows a positional diff of two snapshots reports
ChangedIndices(old, new) ==
    {k \in 1..Min(Len(old), Len(new)) : old[k] # new[k]}

TickReturned == pc = "match" /\ fetched

LoopPcs == {"sleep", "fetch", "diff", "match", "alert"}

\* C1 as stated: whenever tick has fetched and returned, the rows it handed to
\* the notifier are exactly the rows that differ below the shorter length.
C1_DispatchedEqualsDiff ==
    TickReturned => Range(dispatched) = ChangedIndices(previous_data, new_data)

\* C1 amended: the rows handed to the notifier are always among the differing
\* rows, and are exactly the differing rows when tick returns Ok.
C1_DispatchedEqualsDiffOnOk ==
    TickReturned =>
        /\ Range(dispatched) \subseteq ChangedIndices(previous_data, new_data)
        /\ result = "Ok" =>
              Range(dispatched) = ChangedIndices(previous_data, new_data)

C1_Witness ==
    /\ TickReturned /\ result = "Ok"
    /\ Len(new_data) > Len(previous_data)
    /\ Range(dispatched) = {1}

\* C2: a row whose notification was delivered in the previous cycle and whose
\* fetched content has not changed since is not dispatched again in this cycle.
C2_NoRenotifyOnRetry ==
    \A k \in Range(dispatched) : k \notin renotify_barred

\* C3: a cycle whose fetch returns what the previous cycle's fetch returned
\* dispatches no row.
C3_Idempotent ==
    same_upstream => dispatched = <<>>

\* tick failed at line 87 on the row the iterator stands on
MalformedAbort ==
    /\ result = "Other" /\ fetched
    /\ row <= ZipLen(new_data, previous_data)
    /\ ~FirstIsString(new_data[row])

\* C4: after a cycle that fetched and failed on a malformed row, the retained
\* snapshot is the fetched one.
C4_StoredOnMalformedRow ==
    (pc = "sleep" /\ MalformedAbort) => current_data = new_data

\* C5 as stated: at a SourceError an alert is sent iff none was sent within the
\* last ten minutes; one minute after an alert none is sent, eleven minutes
\* after one is, and two alerts are at least ten minutes apart.
C5_AlertIffTenMinutes ==
    checked =>
        /\ alerted <=> (seen_elapsed = <<>> \/ seen_elapsed[1] > Secs(ThrottleSecs))
        /\ seen_elapsed = <<Secs(60)>> => ~alerted
        /\ seen_elapsed = <<Secs(660)>> => alerted
        /\ (alerted /\ seen_elapsed # <<>>) => seen_elapsed[1] >= Secs(ThrottleSecs)

\* C5 amended: at a SourceError an alert is sent iff none was sent before or
\* the whole seconds since the last one exceed 600, that is from 601 seconds
\* on; the rest as stated.
C5_AlertIffOver600WholeSecs ==
    checked =>
        /\ alerted <=> (seen_elapsed = <<>> \/ seen_elapsed[1] >= Secs(ThrottleSecs + 1))
        /\ seen_elapsed = <<Secs(60)>> => ~alerted
        /\ seen_elapsed = <<Secs(660)>> => alerted
        /\ (alerted /\ seen_elapsed # <<>>) => seen_elapsed[1] >= Secs(ThrottleSecs)

C5_Witness ==
    checked /\ alerted /\ seen_elapsed = <<Secs(660)>> /\ pc = "sleep"

\* C6: the handler of Ok stores the fetched snapshot whole, the handlers of the
\* errors leave the retained snapshot alone, and the retained snapshot changes
\* nowhere else after startup.
C6_SnapshotUpdate ==
    [][ /\ (pc = "match" /\ result = "Ok") => current_data' = new_data
        /\ (pc = "match" /\ result # "Ok") => current_data' = current_data
        /\ current_data' # current_data =>
              \/ pc = "init_fetch"
              \/ pc = "match" /\ result = "Ok" /\ fetched /\ current_data' = new_data
      ]_vars

C6_Witness ==
    pc = "sleep" /\ result = "Ok" /\ current_data = new_data
    /\ current_data # previous_data

\* C7: a cycle whose fetch needs more than the timeout returns Timeout, hands
\* no row to the notifier, sends no alert and leaves the retained snapshot.
C7_Timeout ==
    fetch_dur > Secs(TimeoutSecs) =>
        /\ result = "Timeout"
        /\ dispatched = <<>>
        /\ ~alerted /\ pc # "alert" /\ alert_result = "none"
        /\ current_data = previous_data

C7_Witness ==
    /\ pc = "sleep" /\ fetch_dur > Secs(TimeoutSecs) /\ result = "Timeout"
    /\ Len(current_data) > 0

\* C8: main never leaves the loop, and under fairness every fetch is followed
\* by its outcome's handling and every outcome by the next cycle's fetch.
C8_NothingFatal ==
    /\ [][(pc \in LoopPcs) => (pc' \in LoopPcs /\ main_err' = "none")]_vars
    /\ (pc = "fetch") ~> (pc = "match")
    /\ (pc = "match") ~> (pc = "fetch")

C8_Witness ==
    pc = "fetch" /\ alert_result = "failed"

\* C9: main ends during startup only through the failure of the initial fetch.
C9_OnlyInitialFetchFatal ==
    pc = "exit" => main_err = "get_sheet_values"

\* C10: an alert is begun only by the handler of a SourceError, and the
\* handlers of Timeout and Other leave the last-alert time alone.
C10_AlertOnlyOnSourceError ==
    [][ /\ (pc' = "alert" /\ pc # "alert") => (pc = "match" /\ result = "GoogleAPI")
        /\ (alerted' /\ ~alerted) => (pc = "match" /\ result = "GoogleAPI")
        /\ (last_error_time' = <<0>> /\ last_error_time # <<0>>) =>
              (pc = "match" /\ result = "GoogleAPI")
        /\ (pc = "match" /\ result \in {"Timeout", "Other"}) =>
              /\ last_error_time' = last_error_time
              /\ alerted' = alerted
              /\ pc' = "sleep"
      ]_vars

C10_Witness ==
    /\ pc = "sleep" /\ result \in {"Timeout", "Other"}
    /\ last_error_time # <<>> /\ AsSecs(last_error_time[1]) > ThrottleSecs
    /\ ~alerted

\* C11: a row whose send failed in the previous cycle and whose fetched content
\* has not changed since is not handed to the notifier again in this cycle.
C11_NoResendAfterFailure ==
    \A k \in Range(dispatched) : k \notin resend_barred

\* C12: within one cycle no row index is handed to the notifier twice, whatever
\* the snapshots and however the cycle ends.
C12_AtMostOncePerRow ==
    \A i, j \in 1..Len(dispatched) : i # j => dispatched[i] # dispatched[j]

C12_Witness ==
    pc = "match" /\ Len(dispatched) = 2 /\ result = "Other"

\* C13: when the fetched snapshot is longer than the retained one, no row
\* beyond the length of the retained snapshot is handed to the notifier.
C13_NoDispatchForTrailingRows ==
    Len(new_data) > Len(previous_data) =>
        \A k \in Range(dispatched) : k <= Len(previous_data)

C13_Witness ==
    /\ pc = "match" /\ result = "Ok"
    /\ Len(previous_data) = 1 /\ Len(new_data) = 2
    /\ FirstIsString(new_data[2])
    /\ dispatched = <<1>>

\* C14: the message of every dispatched row is the mention "<@id> " followed by
\* the comma-joined rendering of the row when the upper case of its first cell
\* is a key of the lookup, and the rendering alone when it is not: with the
\* lookup {"A1": "99"}, first cell "a1" is prefixed with "<@99> ", "b2" is not.
C14_MentionPrefix ==
    /\ Len(sent_content) = Len(dispatched)
    /\ \A i \in 1..Len(sent_content) :
          LET new_row == new_data[dispatched[i]]
              first == new_row[1].val
              key == to_uppercase(first)
          IN  /\ new_row[1].kind = "String"
              /\ sent_content[i] =
                    (IF key \in DOMAIN ids THEN "<@" \o ids[key] \o "> " ELSE "")
                       \o join(new_row)
              /\ first = "a1" => sent_content[i] \in {"<@99> \"a1\", 5", "<@99> \"a1\", 6"}
              /\ first = "b2" => sent_content[i] = "\"b2\", 5"

C14_Witness ==
    /\ pc = "match" /\ result = "Ok"
    /\ new_data = << <<Str("b2"), Num("5")>> >>
    /\ sent_content = << "\"b2\", 5" >>

\* C15: a tick that fetched ends with Other at the lowest changed row that is
\* malformed or whose send fails: the changed rows before it have been handed
\* to the notifier, no changed row after it has, a malformed row itself has not;
\* a tick that returns Ok met no such row.
C15_FailFast ==
    TickReturned =>
        LET changed == ChangedIndices(previous_data, new_data)
        IN  /\ result \in {"Ok", "Other"}
            /\ result = "Ok" =>
                  /\ cause = "none"
                  /\ \A k \in changed :
                        FirstIsString(new_data[k]) /\ k \in Range(dispatched)
            /\ result = "Other" =>
                  /\ row \in changed
                  /\ cause \in {"malformed_row", "send_failed"}
                  /\ cause = "malformed_row" <=> ~FirstIsString(new_data[row])
                  /\ cause = "malformed_row" <=> row \notin Range(dispatched)
                  /\ \A k \in changed :
                        /\ k < row => FirstIsString(new_data[k]) /\ k \in Range(dispatched)
                        /\ k > row => k \notin Range(dispatched)

C15_Witness ==
    /\ TickReturned /\ result = "Other" /\ cause = "send_failed"
    /\ row = 1 /\ dispatched = <<1>>
    /\ 2 \in ChangedIndices(previous_data, new_data)
    /\ FirstIsString(new_data[2])

\* C16: within one cycle the rows are handed to the notifier one after the
\* other in strictly increasing index order, each before the iterator moves
\* past it, and none before the fetch of the cycle has succeeded.
C16_IncreasingOrder ==
    /\ \A i, j \in 1..Len(dispatched) : i < j => dispatched[i] < dispatched[j]
    /\ \A k \in Range(dispatched) : k <= row
    /\ dispatched # <<>> => fetched /\ pc \in {"diff", "match", "sleep", "fetch"}

C16_Witness ==
    pc = "match" /\ result = "Ok" /\ dispatched = <<1, 2>>

\* C17: one cycle at a time: a fetch begins only out of the sleep, after at
\* least the sleep's five seconds; the sleep begins only when the announcement,
\* the handling of an outcome or the alert send has finished; the diff begins
\* only out of its own cycle's fetch, the outcome is handled only after the
\* fetch or the diff returned, and while a diff runs its two snapshots stay.
C17_SingleActiveCycle ==
    [][ /\ (pc' = "fetch" /\ pc # "fetch") =>
              /\ pc = "sleep"
              /\ last_error_time # <<>> =>
                    last_error_time'[1] >=
                       Min(last_error_time[1] + Secs(SleepSecs), ElapsedCap)
        /\ (pc' = "sleep" /\ pc # "sleep") => pc \in {"announce", "match", "alert"}
        /\ (pc = "alert" /\ pc' # "alert") => (pc' = "sleep" /\ alert_result' # "none")
        /\ (pc' = "diff" /\ pc # "diff") => (pc = "fetch" /\ dispatched' = <<>>)
        /\ (pc' = "match" /\ pc # "match") => pc \in {"fetch", "diff"}
        /\ (pc' = "alert" /\ pc # "alert") => pc = "match"
        /\ pc = "diff" =>
              /\ previous_data' = previous_data /\ new_data' = new_data
              /\ dispatched' \in {dispatched, Append(dispatched, row)}
        /\ (pc # "diff" /\ dispatched' # dispatched) => dispatched' = <<>>
      ]_vars

C17_Witness ==
    pc = "fetch" /\ last_alert_result = "sent" /\ last_error_time = <<Secs(60)>>

\* C18: every failed cycle has exactly one class: an API failure reported
\* within the timeout gives GoogleAPI, a fetch beyond the timeout gives
\* Timeout, and a response without values, a malformed row or a failed send
\* gives Other; a cycle in which nothing failed has no error class.
C18_Classification ==
    /\ result \in {"None", "Ok", "GoogleAPI", "Timeout", "Other"}
    /\ cause = "api_error" <=> result = "GoogleAPI"
    /\ cause = "timeout" <=> result = "Timeout"
    /\ cause \in {"no_values", "malformed_row", "send_failed"} <=> result = "Other"
    /\ cause = "none" <=> result \in {"None", "Ok"}
    /\ cause = "api_error" => fetch_dur <= Secs(TimeoutSecs)
    /\ fetch_dur > Secs(TimeoutSecs) => result = "Timeout"

C18_Witness ==
    pc = "match" /\ cause = "no_values" /\ result = "Other" /\ ~fetched

\* the instant of the last alert is recorded anew in this step: the time
\* elapsed since it starts or falls
Rerecorded ==
    \/ last_error_time = <<>> /\ last_error_time' # <<>>
    \/ /\ last_error_time # <<>> /\ last_error_time' # <<>>
       /\ last_error_time'[1] < last_error_time[1]

C20_RecordedBeforeSend ==
    /\ pc = "alert" => last_error_time = <<0>>
    /\ last_alert_result # "none" => last_error_time # <<>>
    /\ last_alert_result = "failed" => (main_err = "none" /\ pc # "exit")
    /\ (checked /\ last_alert_result = "failed" /\ seen_elapsed # <<>>
           /\ AsSecs(seen_elapsed[1]) <= ThrottleSecs) => ~alerted

C20_Witness ==
    /\ pc = "sleep" /\ result = "GoogleAPI" /\ checked /\ ~alerted
    /\ last_alert_result = "failed" /\ seen_elapsed = <<Secs(ThrottleSecs)>>

====
